---- MODULE Spec2Model ----
(***************************************************************************)
(* The live session orchestrator (LiveAssistant, src/components/Card.tsx)  *)
(* as a state machine: the React state, the refs, every connect()          *)
(* invocation with its closure (audio contexts, capture stream, transport  *)
(* session, script processor, frame timer), the inbound audio path with    *)
(* its decode suspension point, and the camera controls.                   *)
(*                                                                         *)
(* Handlers run to completion on the single event-loop thread, so each     *)
(* handler (or each piece of an async function between two awaits) is one  *)
(* action.  A null ref is 0; a non-null ref holds the number of the        *)
(* connect() call that created the object (call c owns input context c,    *)
(* output context c, stream c, session c and frame timer c).               *)
(***************************************************************************)
EXTENDS Integers, Sequences, FiniteSets, TLC

\* ---------------------------------------------------------------- bounds
MaxConnects == 2      \* connect() invocations
MaxMsgs     == 2      \* inbound messages handled by onmessage
MaxTime     == 2      \* reading of an output context's clock
MaxSwitches == 1      \* switchCamera() invocations
MaxEncoding == 1      \* frames of one timer inside toBlob/blobToBase64
MaxDur      == 1      \* longest decoded chunk, in clock units
MaxBlocks   == 2      \* audio blocks one script processor hands to its session

Durations == 1..MaxDur

VARIABLES
    connected, isCameraActive, facingMode, status, error,
    sessionRef, audioContextRef, inputAudioContextRef, nextStartTimeRef,
    sourcesRef, streamRef, frameIntervalRef,
    calls,      \* one record per connect() invocation, in call order
    tracks,     \* every video track obtained from getUserMedia
    switches,   \* switchCamera() invocations suspended at getUserMedia
    decoding,   \* onmessage invocations suspended at `await decodeAudioData`
    srcs,       \* every AudioBufferSourceNode created, in creation order
    nMsgs,      \* messages handled so far (bounds the model)
    mounted,    \* the component is mounted
    hidden,     \* document.hidden
    last,       \* the handler that ran last, where a property speaks of it
                \* ("step" for the others)
    prevEnd,    \* history: end (start + duration) of the chunk scheduled last
                \* since the cursor was reset; -1 when there is none
    lastArr,    \* history: output clock read by the last audio arrival since then
    sample, int16, encoded,  \* createBlob: one captured sample and its encoding
    analyzer,   \* ProjectBriefAnalyzer: the component's React state
    requests,   \* ProjectBriefAnalyzer: service calls awaiting their answer
    nAnalyses   \* ProjectBriefAnalyzer: analyses started so far

vars == << connected, isCameraActive, facingMode, status, error,
           sessionRef, audioContextRef, inputAudioContextRef, nextStartTimeRef,
           sourcesRef, streamRef, frameIntervalRef,
           calls, tracks, switches, decoding, srcs, nMsgs, mounted, hidden,
           last, prevEnd, lastArr, sample, int16, encoded,
           analyzer, requests, nAnalyses >>

reactVars == << connected, isCameraActive, facingMode, status, error >>
refVars   == << sessionRef, audioContextRef, inputAudioContextRef,
                nextStartTimeRef, sourcesRef, streamRef, frameIntervalRef >>
blobVars  == << sample, int16, encoded >>
histVars  == << prevEnd, lastArr >>
briefVars == << analyzer, requests, nAnalyses >>

Max(a, b) == IF a >= b THEN a ELSE b
Min(a, b) == IF a <= b THEN a ELSE b

Calls == DOMAIN calls

\* ------------------------------------------------------------ createBlob
SampleDen   == 40000   \* a sample is sample / SampleDen
SampleStep  == 2500    \* spacing of the coarse samples
MaxSampleK  == 26      \* coarse samples reach +-MaxSampleK * SampleStep
TinyN       == 3       \* fine samples -TinyN..TinyN around zero

Samples == { k * SampleStep : k \in -MaxSampleK..MaxSampleK }
           \cup (-TinyN..TinyN)
           \cup { SampleDen + d : d \in {-1, 1} }
           \cup { -SampleDen + d : d \in {-1, 1} }

\* Math.max(-1, Math.min(1, data[i])), on numerators over SampleDen
ClampNone(x) == x
Clamp(x) == Max(-SampleDen, Min(SampleDen, x))

\* truncation toward zero of n / d (d > 0): the integer part ToInt16 keeps
Trunc(n, d) == IF n >= 0 THEN n \div d ELSE -((-n) \div d)

\* the store into an Int16Array: ToInt16 of the truncated number, modulo 2^16
ToInt16(v) == ((v + 32768) % 65536) - 32768

\* int16[i] = clamped * 32767
EncodeSample(x) == ToInt16(Trunc(Clamp(x) * 32767, SampleDen))

\* ---------------------------------------------------- ProjectBriefAnalyzer
MaxAnalyses == 2      \* Analyze Brief clicks that start an analysis
MaxInFlight == 2      \* service calls awaiting their answer at one time

\* An analysis is named by its number (1 for the first one started); null
\* is 0.  An image, or the error of an image request, carries the number of
\* the analysis whose text went into the request's prompt.
ExteriorViewTypes == {"front", "side", "rear"}
Rooms == {"Kitchen"}            \* analysis.rooms of every analysis

\* { loading: false, imageUrl: null, error: null }
NoView == [loading |-> FALSE, imageUrl |-> 0, error |-> 0]

initialExteriorViewsState == [v \in ExteriorViewTypes |-> NoView]

\* {} : a room without an entry renders as one whose entry is empty
NoInteriorViews == [r \in Rooms |-> NoView]

\* useState initial values of ProjectBriefAnalyzer (part_001 51-72)
InitAnalyzer ==
    /\ analyzer = [analysis               |-> 0,
                   loading                |-> FALSE,
                   error                  |-> 0,
                   isGeneratingModel      |-> FALSE,
                   modelImageUrl          |-> 0,
                   modelError             |-> 0,
                   exteriorViews          |-> initialExteriorViewsState,
                   interiorViews          |-> NoInteriorViews,
                   isGeneratingDiagram    |-> FALSE,
                   diagramImageUrl        |-> 0,
                   diagramError           |-> 0,
                   isGeneratingElectrical |-> FALSE,
                   electricalImageUrl     |-> 0,
                   electricalError        |-> 0]
    /\ requests = << >>
    /\ nAnalyses = 0

\* ------------------------------------------------------------------ Init
\* useState/useRef initial values (Card.tsx 114-129); nothing connected yet.
InitLive ==
    /\ connected = FALSE
    /\ isCameraActive = FALSE
    /\ facingMode = "user"
    /\ status = "Ready to connect"
    /\ error = "null"
    /\ sessionRef = 0
    /\ audioContextRef = 0
    /\ inputAudioContextRef = 0
    /\ nextStartTimeRef = 0
    /\ sourcesRef = {}
    /\ streamRef = 0
    /\ frameIntervalRef = 0
    /\ calls = << >>
    /\ tracks = << >>
    /\ switches = << >>
    /\ decoding = << >>
    /\ srcs = << >>
    /\ nMsgs = 0
    /\ mounted = TRUE
    /\ hidden = FALSE
    /\ last = "init"
    /\ prevEnd = -1
    /\ lastArr = 0

Init ==
    /\ InitLive
    /\ sample = 0
    /\ int16 = 0
    /\ encoded = FALSE
    /\ InitAnalyzer

\* --------------------------------------------------------- stopEverything
\* track.stop() on every track of the held stream; the stream's video tracks
StopVideoTracks(tr, cs) ==
    [t \in DOMAIN tr |->
        IF streamRef # 0 /\ cs[streamRef].vid = t
        THEN [tr[t] EXCEPT !.stopped = TRUE] ELSE tr[t]]

\* the held stream's audio track stopped, the held timer cleared, the two
\* held contexts closed
ReleaseHeld(cs) ==
    [c \in DOMAIN cs |->
        [cs[c] EXCEPT
            !.audioStopped = IF streamRef = c THEN TRUE ELSE @,
            !.timerOn = IF frameIntervalRef = c THEN FALSE ELSE @,
            !.inState = IF inputAudioContextRef = c THEN "closed" ELSE @,
            !.outState = IF audioContextRef = c THEN "closed" ELSE @]]

\* A source that has left the playback set for good: only how it left is
\* kept (its context, start and duration no longer matter to anything).
Gone(how) == [ctx |-> 0, start |-> 0, dur |-> 0, endAt |-> 0, state |-> how]

\* source.stop() on every member of a set of sources
StopSources(ss, set) ==
    [i \in DOMAIN ss |->
        IF i \in set /\ ss[i].state = "scheduled"
        THEN Gone("stopped") ELSE ss[i]]

\* A slip that chains the guarded releases with else-if: a call releases only
\* the first resource it finds held.
stopEverythingElseIf(cs) ==
    /\ sessionRef' = 0
    /\ IF sessionRef # 0
       THEN /\ calls' = cs
            /\ tracks' = tracks
            /\ UNCHANGED << streamRef, frameIntervalRef, inputAudioContextRef,
                            audioContextRef >>
       ELSE /\ calls' = ReleaseHeld(cs)
            /\ tracks' = StopVideoTracks(tracks, cs)
            /\ streamRef' = 0
            /\ frameIntervalRef' = 0
            /\ inputAudioContextRef' = 0
            /\ audioContextRef' = 0
    /\ srcs' = StopSources(srcs, sourcesRef)
    /\ sourcesRef' = {}
    /\ connected' = FALSE
    /\ isCameraActive' = FALSE
    /\ status' = "Disconnected"

\* A slip that leaves the frame timer running and its handle set.
stopEverythingKeepTimer(cs) ==
    /\ sessionRef' = 0
    /\ calls' = [c \in DOMAIN cs |->
                    [ReleaseHeld(cs)[c] EXCEPT !.timerOn = cs[c].timerOn]]
    /\ tracks' = StopVideoTracks(tracks, cs)
    /\ streamRef' = 0
    /\ frameIntervalRef' = frameIntervalRef
    /\ inputAudioContextRef' = 0
    /\ audioContextRef' = 0
    /\ srcs' = StopSources(srcs, sourcesRef)
    /\ sourcesRef' = {}
    /\ connected' = FALSE
    /\ isCameraActive' = FALSE
    /\ status' = "Disconnected"

\* stopEverything, run on the calls as the caller left them (cs).  Each ref is
\* released only when non-null; the sources are stopped and the set cleared;
\* the three state setters run unconditionally.  The transport session is not
\* closed: only its ref is dropped.
stopEverything(cs) ==
    /\ sessionRef' = 0
    /\ calls' = ReleaseHeld(cs)
    /\ tracks' = StopVideoTracks(tracks, cs)
    /\ streamRef' = 0
    /\ frameIntervalRef' = 0
    /\ inputAudioContextRef' = 0
    /\ audioContextRef' = 0
    /\ srcs' = StopSources(srcs, sourcesRef)
    /\ sourcesRef' = {}
    /\ connected' = FALSE
    /\ isCameraActive' = FALSE
    /\ status' = "Disconnected"

\* what stopEverything leaves alone
stopFrame == << facingMode, nextStartTimeRef, switches, decoding, nMsgs, hidden >>

StopLabels == {"stop", "unmount", "stopAgain", "errorStop"}

\* The End Session button (rendered while connected).
UserStop ==
    /\ mounted /\ connected
    /\ stopEverything(calls)
    /\ last' = "stop"
    /\ UNCHANGED << error, mounted, stopFrame, histVars, blobVars, briefVars >>

\* The unmount effect's cleanup: stopEverything once more, whatever the state.
Unmount ==
    /\ mounted
    /\ mounted' = FALSE
    /\ stopEverything(calls)
    /\ last' = IF last \in StopLabels THEN "stopAgain" ELSE "unmount"
    /\ UNCHANGED << error, stopFrame, histVars, blobVars, briefVars >>

\* ----------------------------------------------------------------- connect
\* The closure of one connect() call.  Both contexts are created in the same
\* task, so the host's autoplay policy leaves them both suspended or both
\* running.
NewCall(susp) ==
    [ pc |-> IF susp THEN "resumeIn" ELSE "gum",
      inState |-> IF susp THEN "suspended" ELSE "running",
      outState |-> IF susp THEN "suspended" ELSE "running",
      outTime |-> 0,          \* outputAudioContext.currentTime
      stream |-> FALSE,       \* getUserMedia has delivered the stream
      audioStopped |-> FALSE, \* the stream's audio track is stopped
      vid |-> 0,              \* the stream's video track (0: none)
      sess |-> "none",        \* the transport session of ai.live.connect
      producer |-> FALSE,     \* the script processor is attached
      timerOn |-> FALSE,      \* the frame interval is set and not cleared
      canvas |-> FALSE,       \* canvasEl captured by onopen is non-null
      enc |-> 0,              \* frames drawn and not yet sent or dropped
      ready |-> FALSE,        \* a send has found the session promise resolved
      blocks |-> 0,           \* audio blocks captured past the guard (290)
      thens |-> << >>,        \* sends waiting on the session promise, in
                              \* registration order (0: a frame, n: block n)
      sent |-> << >> ]        \* blocks passed to sendRealtimeInput, in order

\* lines 256-258: the contexts are published and the cursor starts at 0
ResetCursor == 0

PublishContexts(c) ==
    /\ inputAudioContextRef' = c
    /\ audioContextRef' = c
    /\ nextStartTimeRef' = ResetCursor
    /\ prevEnd' = -1
    /\ lastArr' = 0

\* The Start Live Session button (rendered while not connected): connect()
\* up to its first await.
Connect(susp) ==
    /\ mounted /\ ~connected
    /\ Len(calls) < MaxConnects
    /\ error' = "null"
    /\ status' = "Connecting..."
    /\ calls' = Append(calls, NewCall(susp))
    /\ IF susp
       THEN /\ last' = "step"
            /\ UNCHANGED << inputAudioContextRef, audioContextRef,
                            nextStartTimeRef, histVars >>
       ELSE /\ last' = "connectReset"
            /\ PublishContexts(Len(calls) + 1)
    /\ UNCHANGED << connected, isCameraActive, facingMode, sessionRef,
                    sourcesRef, streamRef, frameIntervalRef, tracks, switches,
                    decoding, srcs, nMsgs, mounted, hidden, blobVars, briefVars >>

\* `await inputAudioContext.resume()` returns (lines 249-251)
ResumedIn(c) ==
    /\ calls[c].pc = "resumeIn"
    /\ calls' = [calls EXCEPT ![c].pc = "resumeOut", ![c].inState = "running"]
    /\ last' = "step"
    /\ UNCHANGED << reactVars, refVars, tracks, switches, decoding, srcs,
                    nMsgs, mounted, hidden, histVars, blobVars, briefVars >>

\* `await outputAudioContext.resume()` returns; lines 256-264 follow
ResumedOut(c) ==
    /\ calls[c].pc = "resumeOut"
    /\ calls' = [calls EXCEPT ![c].pc = "gum", ![c].outState = "running"]
    /\ PublishContexts(c)
    /\ last' = "connectReset"
    /\ UNCHANGED << reactVars, sessionRef, sourcesRef, streamRef,
                    frameIntervalRef, tracks, switches, decoding, srcs, nMsgs,
                    mounted, hidden, blobVars, briefVars >>

NewTrack == [enabled |-> TRUE, stopped |-> FALSE]

\* getUserMedia resolves: lines 265-400 run up to the end of the try block.
\* The session promise is stored at once; the transport is still opening.
GumResolved(c) ==
    /\ calls[c].pc = "gum"
    /\ tracks' = Append(tracks, NewTrack)
    /\ calls' = [calls EXCEPT ![c].pc = "done", ![c].stream = TRUE,
                              ![c].vid = Len(tracks) + 1,
                              ![c].sess = "opening"]
    /\ streamRef' = c
    /\ isCameraActive' = TRUE
    /\ sessionRef' = c
    /\ last' = "step"
    /\ UNCHANGED << connected, facingMode, status, error, audioContextRef,
                    inputAudioContextRef, nextStartTimeRef, sourcesRef,
                    frameIntervalRef, switches, decoding, srcs, nMsgs,
                    mounted, hidden, histVars, blobVars, briefVars >>

\* getUserMedia rejects: the catch block of connect (lines 402-406).
\* setStatus("Error") is overwritten by stopEverything's setStatus in the
\* same synchronous run.
GumRejected(c) ==
    /\ calls[c].pc = "gum"
    /\ error' = "capture"
    /\ stopEverything([calls EXCEPT ![c].pc = "done"])
    /\ last' = "errorStop"
    /\ UNCHANGED << mounted, stopFrame, histVars, blobVars, briefVars >>

\* ------------------------------------------------------ transport callbacks
\* A slip that goes Live without starting the two producers.
OnOpenNoProducers(c) ==
    /\ calls[c].sess = "opening"
    /\ status' = "Live"
    /\ connected' = TRUE
    /\ calls' = [calls EXCEPT ![c].sess = "open"]
    /\ frameIntervalRef' = frameIntervalRef
    /\ last' = "opened"
    /\ UNCHANGED << isCameraActive, facingMode, error, sessionRef,
                    audioContextRef, inputAudioContextRef, nextStartTimeRef,
                    sourcesRef, streamRef, tracks, switches, decoding, srcs,
                    nMsgs, mounted, hidden, histVars, blobVars, briefVars >>

\* onopen (lines 281-345): the state setters, the script processor wired to
\* this call's input context and stream, and the frame interval, whose handle
\* overwrites whatever frameIntervalRef held.
OnOpen(c) ==
    /\ calls[c].sess = "opening"
    /\ status' = "Live"
    /\ connected' = TRUE
    /\ calls' = [calls EXCEPT ![c].sess = "open", ![c].producer = TRUE,
                              ![c].timerOn = TRUE, ![c].canvas = mounted]
    /\ frameIntervalRef' = c
    /\ last' = "opened"
    /\ UNCHANGED << isCameraActive, facingMode, error, sessionRef,
                    audioContextRef, inputAudioContextRef, nextStartTimeRef,
                    sourcesRef, streamRef, tracks, switches, decoding, srcs,
                    nMsgs, mounted, hidden, histVars, blobVars, briefVars >>

\* onclose (lines 381-384): two state setters and nothing else.
OnClose(c) ==
    /\ calls[c].sess \in {"open", "errored"}
    /\ calls' = [calls EXCEPT ![c].sess = "closed"]
    /\ status' = "Disconnected"
    /\ connected' = FALSE
    /\ last' = IF status = "Live" THEN "oncloseLive" ELSE "step"
    /\ UNCHANGED << isCameraActive, facingMode, error, refVars, tracks,
                    switches, decoding, srcs, nMsgs, mounted, hidden,
                    histVars, blobVars, briefVars >>

\* A slip that reports the error but leaves the session as it is.
OnErrorNoStop(c) ==
    /\ calls[c].sess \in {"opening", "open"}
    /\ error' = "connection"
    /\ calls' = [calls EXCEPT ![c].sess = "errored"]
    /\ last' = "errorStop"
    /\ UNCHANGED << connected, isCameraActive, facingMode, status, refVars,
                    tracks, switches, decoding, srcs, nMsgs, mounted, hidden,
                    histVars, blobVars, briefVars >>

\* onerror (lines 385-389)
OnError(c) ==
    /\ calls[c].sess \in {"opening", "open"}
    /\ error' = "connection"
    /\ stopEverything([calls EXCEPT ![c].sess = "errored"])
    /\ last' = "errorStop"
    /\ UNCHANGED << mounted, stopFrame, histVars, blobVars, briefVars >>

\* the session promise rejects before the transport opens (lines 396-400)
SessionRejected(c) ==
    /\ calls[c].sess = "opening"
    /\ error' = "failed"
    /\ stopEverything([calls EXCEPT ![c].sess = "failed"])
    /\ last' = "errorStop"
    /\ UNCHANGED << mounted, stopFrame, histVars, blobVars, briefVars >>

\* ------------------------------------------------------ outbound producers
\* The rejection handlers of the two sends (lines 297-300 and 335-337) only
\* log: the error message stays what it was.
SendRejectedErrorSet(err) == "send"
SendRejectedError(err) == err

\* what `last` records of a sendRealtimeInput call on the closure's session
SendLabel(kind, ok) == IF ok THEN kind ELSE "sendFailed"

\* What a handler that chains a send on the session promise of call c can
\* find (res: resolved).  The promise resolves at some moment after the
\* transport has opened, and the only thing that shows it is when the
\* chained sends run: once a send has run the promise is resolved for good,
\* and while earlier sends are waiting it is still pending.
PromiseFound(c, res) ==
    /\ calls[c].ready => res
    /\ calls[c].thens # << >> => ~res

\* onaudioprocess (lines 289-301), fired by call c's script processor while
\* its input context runs: unless sessionRef is null, the block is encoded
\* and a send is chained on the session promise of call c.  On a resolved
\* promise the send runs right after the handler; ok is whether it
\* succeeds.  On a pending one it waits with the sends chained before it.
AudioProcess(c, res, ok) ==
    /\ calls[c].producer
    /\ calls[c].inState = "running"
    /\ IF sessionRef = 0
       THEN /\ ok /\ res
            /\ last' = "step"
            /\ error' = error
            /\ calls' = calls
       ELSE /\ calls[c].blocks < MaxBlocks
            /\ PromiseFound(c, res)
            /\ LET b == calls[c].blocks + 1
               IN  IF res
                   THEN /\ calls' = [calls EXCEPT ![c].blocks = b,
                                                  ![c].ready = TRUE,
                                                  ![c].sent = Append(@, b)]
                        /\ last' = SendLabel("sentAudio", ok)
                        /\ error' = IF ok THEN error
                                          ELSE SendRejectedError(error)
                   ELSE /\ ok
                        /\ calls' = [calls EXCEPT ![c].blocks = b,
                                                  ![c].thens = Append(@, b)]
                        /\ last' = "step"
                        /\ error' = error
    /\ UNCHANGED << connected, isCameraActive, facingMode, status, refVars,
                    tracks, switches, decoding, srcs, nMsgs, mounted,
                    hidden, histVars, blobVars, briefVars >>

\* A slip that runs the waiting sends newest first.
ThenOrderReversed(q) == [i \in DOMAIN q |-> q[Len(q) + 1 - i]]

\* the reactions chained on one promise run in the order of their then()
\* calls (lines 295 and 331)
ThenOrder(q) == q

IsBlock(x) == x > 0
IsFrame(x) == x = 0

\* The session promise of call c resolves, after the transport has opened,
\* with sends chained on it: they run now, in ThenOrder; ok is whether they
\* succeed.
SessionResolved(c, ok) ==
    /\ calls[c].sess = "open"
    /\ calls[c].thens # << >>
    /\ calls' = [calls EXCEPT ![c].ready = TRUE, ![c].thens = << >>,
                              ![c].enc = @ - Len(SelectSeq(calls[c].thens,
                                                           IsFrame)),
                              ![c].sent = @ \o SelectSeq(
                                  ThenOrder(calls[c].thens), IsBlock)]
    /\ last' = SendLabel("sentQueued", ok)
    /\ error' = IF ok THEN error ELSE SendRejectedError(error)
    /\ UNCHANGED << connected, isCameraActive, facingMode, status, refVars,
                    tracks, switches, decoding, srcs, nMsgs, mounted,
                    hidden, histVars, blobVars, briefVars >>

\* the <video> element exists while the component renders it (line 427)
VideoElPresent == mounted /\ isCameraActive

\* streamRef.current?.getVideoTracks()[0] exists and is enabled (313-314)
TrackEnabled ==
    /\ streamRef # 0
    /\ calls[streamRef].vid # 0
    /\ tracks[calls[streamRef].vid].enabled

\* document.hidden || !sessionRef.current (line 310)
TickBlockedNoHidden == sessionRef = 0
TickBlocked == hidden \/ sessionRef = 0

\* One tick of call c's frame interval (lines 309-344).  `ready` is
\* videoEl.videoWidth being non-zero and the canvas giving a 2d context.
FrameTick(c, ready) ==
    /\ calls[c].timerOn
    /\ IF /\ ~TickBlocked
          /\ TrackEnabled
          /\ calls[c].canvas /\ VideoElPresent /\ ready
       THEN /\ calls[c].enc < MaxEncoding
            /\ calls' = [calls EXCEPT ![c].enc = @ + 1]
            /\ last' = "frame"
       ELSE /\ calls' = calls
            /\ last' = "step"
    /\ UNCHANGED << reactVars, refVars, tracks, switches, decoding, srcs,
                    nMsgs, mounted, hidden, histVars, blobVars, briefVars >>

\* frames of call c's timer still inside toBlob / blobToBase64
InToBlob(c) == calls[c].enc - Len(SelectSeq(calls[c].thens, IsFrame))

\* the toBlob callback after blobToBase64 (lines 327-340): when a blob came
\* and sessionRef is non-null, a send of the frame is chained on the session
\* promise, as in onaudioprocess
FrameEncoded(c, blob, res, ok) ==
    /\ InToBlob(c) > 0
    /\ IF blob /\ sessionRef # 0
       THEN /\ PromiseFound(c, res)
            /\ IF res
               THEN /\ calls' = [calls EXCEPT ![c].enc = @ - 1,
                                              ![c].ready = TRUE]
                    /\ last' = SendLabel("sentFrame", ok)
                    /\ error' = IF ok THEN error
                                      ELSE SendRejectedError(error)
               ELSE /\ ok
                    /\ calls' = [calls EXCEPT ![c].thens = Append(@, 0)]
                    /\ last' = "step"
                    /\ error' = error
       ELSE /\ ok /\ res
            /\ calls' = [calls EXCEPT ![c].enc = @ - 1]
            /\ last' = "step"
            /\ error' = error
    /\ UNCHANGED << connected, isCameraActive, facingMode, status, refVars,
                    tracks, switches, decoding, srcs, nMsgs, mounted, hidden,
                    histVars, blobVars, briefVars >>

\* the page is shown or hidden (read only by the frame ticks)
VisibilityChange ==
    /\ \E c \in Calls : calls[c].timerOn
    /\ hidden' = ~hidden
    /\ last' = "step"
    /\ UNCHANGED << reactVars, refVars, calls, tracks, switches, decoding,
                    srcs, nMsgs, mounted, histVars, blobVars, briefVars >>

\* ------------------------------------------------------------ inbound audio
\* line 352: the cursor never lags the output clock
ArrivalCursorNow(cursor, now) == now
ArrivalCursor(cursor, now) == Max(cursor, now)

\* line 370: the cursor advances by the decoded chunk's duration
AdvanceCursorNone(start, dur) == start
AdvanceCursor(start, dur) == start + dur

\* lines 375-379, on the set as it stands when the branch runs
InterruptCursor(cursor) == 0

\* The chunks still inside decodeAudioData (line 354) when an interruption
\* is handled at lines 375-379: that handler has no way to reach them, the
\* model only records that they were received before it.
Overtaken(q) == [i \in DOMAIN q |-> [q[i] EXCEPT !.stale = TRUE]]

\* The handler that ran last was one that reset the cursor at line 378: the
\* message arriving now is the next one received after that interruption.
JustInterrupted == last \in {"interrupted", "scheduledIntr"}

\* onmessage (lines 346-380) up to its await, for a message of session c
\* carrying an audio chunk of duration dur (audio), the interrupted flag
\* (intr), or both; now is what audioCtx.currentTime reads (a running
\* context's clock never reads less than it did before).  With no output
\* context held the handler returns at line 350, before the interrupted
\* flag is looked at.
OnMessage(c, audio, dur, intr, now) ==
    /\ calls[c].sess = "open"
    /\ nMsgs < MaxMsgs
    /\ audio \/ intr
    /\ nMsgs' = nMsgs + 1
    /\ IF audio
       THEN IF audioContextRef = 0
            THEN /\ now = 0
                 /\ last' = IF intr THEN "returnedIntr" ELSE "step"
                 /\ UNCHANGED << nextStartTimeRef, sourcesRef, decoding, srcs,
                                 calls, histVars >>
            ELSE /\ now >= calls[audioContextRef].outTime
                 /\ calls' = [calls EXCEPT ![audioContextRef].outTime = now]
                 /\ nextStartTimeRef' = ArrivalCursor(nextStartTimeRef, now)
                 /\ decoding' = Append(decoding,
                        [ctx |-> audioContextRef, dur |-> dur, intr |-> intr,
                         stale |-> FALSE, postIntr |-> JustInterrupted])
                 /\ lastArr' = now
                 /\ last' = "step"
                 /\ UNCHANGED << sourcesRef, srcs, prevEnd >>
       ELSE /\ now = 0
            /\ srcs' = StopSources(srcs, sourcesRef)
            /\ sourcesRef' = {}
            /\ nextStartTimeRef' = InterruptCursor(nextStartTimeRef)
            /\ prevEnd' = -1
            /\ lastArr' = 0
            /\ decoding' = Overtaken(decoding)
            /\ last' = "interrupted"
            /\ UNCHANGED calls
    /\ UNCHANGED << reactVars, sessionRef, audioContextRef,
                    inputAudioContextRef, streamRef, frameIntervalRef,
                    tracks, switches, mounted, hidden, blobVars, briefVars >>

\* the source created at lines 361-369 for the decoded chunk d; it is heard
\* from max(start, currentTime) on
NewSource(d, start) ==
    [ ctx |-> d.ctx, start |-> start, dur |-> d.dur,
      endAt |-> Max(start, calls[d.ctx].outTime) + d.dur,
      state |-> "scheduled" ]

\* onmessage after its await (lines 361-379): the oldest pending decode
\* resumes, schedules its source at the cursor as it is now, advances the
\* cursor, registers the source, and then handles the message's interrupted
\* flag.
DecodeDone ==
    /\ decoding # << >>
    /\ LET d     == Head(decoding)
           start == nextStartTimeRef
           id    == Len(srcs) + 1
           all   == Append(srcs, NewSource(d, start))
       IN  /\ decoding' = Tail(decoding)
           /\ IF d.intr
              THEN /\ srcs' = StopSources(all, sourcesRef \cup {id})
                   /\ sourcesRef' = {}
                   /\ nextStartTimeRef' =
                          InterruptCursor(AdvanceCursor(start, d.dur))
                   /\ prevEnd' = -1
                   /\ lastArr' = 0
                   /\ last' = "scheduledIntr"
              ELSE /\ srcs' = all
                   /\ sourcesRef' = sourcesRef \cup {id}
                   /\ nextStartTimeRef' = AdvanceCursor(start, d.dur)
                   /\ prevEnd' = start + d.dur
                   /\ lastArr' = lastArr
                   /\ last' = "scheduled"
    /\ UNCHANGED << reactVars, sessionRef, audioContextRef,
                    inputAudioContextRef, streamRef, frameIntervalRef, calls,
                    tracks, switches, nMsgs, mounted, hidden, blobVars, briefVars >>

\* the 'ended' listener of a source that played to its end (lines 365-367):
\* by then its context's clock has reached the end of the chunk.
\* (After source.stop() the listener finds the set already cleared: no-op.)
Ended(i) ==
    /\ srcs[i].state = "scheduled"
    /\ calls[srcs[i].ctx].outState = "running"
    /\ calls' = [calls EXCEPT ![srcs[i].ctx].outTime = Max(@, srcs[i].endAt)]
    /\ srcs' = [srcs EXCEPT ![i] = Gone("ended")]
    /\ sourcesRef' = sourcesRef \ {i}
    /\ last' = "step"
    /\ UNCHANGED << reactVars, sessionRef, audioContextRef,
                    inputAudioContextRef, nextStartTimeRef, streamRef,
                    frameIntervalRef, tracks, switches, decoding,
                    nMsgs, mounted, hidden, histVars, blobVars, briefVars >>

\* ----------------------------------------------------------- camera controls
\* A slip that leaves the camera-active flag as it was.
ToggledFlagKept(newStatus, active) == active

\* line 182: setIsCameraActive(newStatus)
ToggledFlag(newStatus, active) == newStatus

\* toggleCamera (lines 176-185); the buttons are rendered while connected
ToggleCamera ==
    /\ mounted /\ connected
    /\ IF streamRef # 0 /\ calls[streamRef].vid # 0
       THEN LET v == calls[streamRef].vid
                newStatus == ~tracks[v].enabled
            IN  /\ tracks' = [tracks EXCEPT ![v].enabled = newStatus]
                /\ isCameraActive' = ToggledFlag(newStatus, isCameraActive)
                /\ last' = "toggled"
       ELSE /\ UNCHANGED << tracks, isCameraActive >>
            /\ last' = "toggledNothing"
    /\ UNCHANGED << connected, facingMode, status, error, refVars, calls,
                    switches, decoding, srcs, nMsgs, mounted, hidden,
                    histVars, blobVars, briefVars >>

Opposite(mode) == IF mode = "user" THEN "environment" ELSE "user"

\* switchCamera (lines 187-199) up to its first await
SwitchCamera ==
    /\ mounted /\ connected
    /\ Len(switches) < MaxSwitches
    /\ streamRef # 0
    /\ switches' = Append(switches,
                          [pc |-> "exact", target |-> Opposite(facingMode)])
    /\ last' = "step"
    /\ UNCHANGED << reactVars, refVars, calls, tracks, decoding, srcs, nMsgs,
                    mounted, hidden, histVars, blobVars, briefVars >>

\* the exact-constraint request is rejected: the relaxed one is issued
SwitchExactRejected(k) ==
    /\ switches[k].pc = "exact"
    /\ switches' = [switches EXCEPT ![k].pc = "relaxed"]
    /\ last' = "step"
    /\ UNCHANGED << reactVars, refVars, calls, tracks, decoding, srcs, nMsgs,
                    mounted, hidden, histVars, blobVars, briefVars >>

\* A slip that leaves the old video track running.
ReplaceTrackKeepOld(got, old) == got

\* lines 212-215: the old video track, when there is one, is stopped (and
\* removed from the stream)
ReplaceTrack(got, old) ==
    IF old # 0 THEN [got EXCEPT ![old].stopped = TRUE] ELSE got

\* A slip that leaves the camera-active flag as the switch found it.
SwitchedFlagKept(active) == active

\* line 221: setIsCameraActive(true)
SwitchedFlag(active) == TRUE

\* either request resolves: lines 208-221.  With streamRef null by now,
\* line 209 throws and the catch block reports the error; the new track
\* stays as getUserMedia delivered it.
SwitchResolved(k) ==
    /\ switches[k].pc \in {"exact", "relaxed"}
    /\ switches' = [switches EXCEPT ![k].pc = "done"]
    /\ LET new == Len(tracks) + 1
           got == Append(tracks, NewTrack)
       IN  IF streamRef = 0
           THEN /\ tracks' = got
                /\ error' = "switch"
                /\ last' = "switchThrew"
                /\ UNCHANGED << calls, facingMode, isCameraActive >>
           ELSE LET old == calls[streamRef].vid
                IN  /\ tracks' = ReplaceTrack(got, old)
                    /\ calls' = [calls EXCEPT ![streamRef].vid = new]
                    /\ facingMode' = switches[k].target
                    /\ isCameraActive' = SwitchedFlag(isCameraActive)
                    /\ last' = "switched"
                    /\ error' = error
    /\ UNCHANGED << connected, status, refVars, decoding, srcs, nMsgs,
                    mounted, hidden, histVars, blobVars, briefVars >>

\* A slip that swallows the failure of both requests.
SwitchFailedErrorKept(err) == err

\* line 234: setError("Could not switch camera. ...")
SwitchFailedError(err) == "switch"

\* the relaxed request is rejected too: the catch block (lines 232-235)
SwitchRelaxedRejected(k) ==
    /\ switches[k].pc = "relaxed"
    /\ switches' = [switches EXCEPT ![k].pc = "done"]
    /\ error' = SwitchFailedError(error)
    /\ last' = "switchFailed"
    /\ UNCHANGED << connected, isCameraActive, facingMode, status, refVars,
                    calls, tracks, decoding, srcs, nMsgs, mounted, hidden,
                    histVars, blobVars, briefVars >>

\* ------------------------------------------------------------- specification
\* connect, the transport callbacks and teardown
Lifecycle ==
    \/ \E susp \in BOOLEAN : Connect(susp)
    \/ \E c \in Calls : ResumedIn(c)
    \/ \E c \in Calls : ResumedOut(c)
    \/ \E c \in Calls : GumResolved(c)
    \/ \E c \in Calls : GumRejected(c)
    \/ \E c \in Calls : OnOpen(c)
    \/ \E c \in Calls : OnClose(c)
    \/ \E c \in Calls : OnError(c)
    \/ \E c \in Calls : SessionRejected(c)
    \/ UserStop
    \/ Unmount

\* the inbound audio path
Playback ==
    \/ \E c \in Calls, audio \in BOOLEAN, dur \in Durations, intr \in BOOLEAN,
          now \in 0..MaxTime : OnMessage(c, audio, dur, intr, now)
    \/ DecodeDone
    \/ \E i \in DOMAIN srcs : Ended(i)

\* the two outbound producers and the sends chained on the session promise
Producers ==
    \/ \E c \in Calls, res \in BOOLEAN, ok \in BOOLEAN :
            AudioProcess(c, res, ok)
    \/ \E c \in Calls, ok \in BOOLEAN : SessionResolved(c, ok)
    \/ \E c \in Calls, ready \in BOOLEAN : FrameTick(c, ready)
    \/ \E c \in Calls, blob \in BOOLEAN, res \in BOOLEAN, ok \in BOOLEAN :
            FrameEncoded(c, blob, res, ok)

\* the frame producer with what gates its ticks
Frames ==
    \/ \E c \in Calls, ready \in BOOLEAN : FrameTick(c, ready)
    \/ \E c \in Calls, blob \in BOOLEAN, res \in BOOLEAN, ok \in BOOLEAN :
            FrameEncoded(c, blob, res, ok)
    \/ \E c \in Calls, ok \in BOOLEAN : SessionResolved(c, ok)
    \/ VisibilityChange
    \/ ToggleCamera

\* the camera controls
Camera ==
    \/ ToggleCamera
    \/ SwitchCamera
    \/ \E k \in DOMAIN switches : SwitchExactRejected(k)
    \/ \E k \in DOMAIN switches : SwitchResolved(k)
    \/ \E k \in DOMAIN switches : SwitchRelaxedRejected(k)

Capture == Producers \/ Frames \/ Camera

Next == Lifecycle \/ Playback \/ Capture

Spec == Init /\ [][Next]_vars

NextPlayback == Lifecycle \/ Playback
SpecPlayback == Init /\ [][NextPlayback]_vars

NextCapture == Lifecycle \/ Producers
SpecCapture == Init /\ [][NextCapture]_vars

NextFrames == Lifecycle \/ Frames
SpecFrames == Init /\ [][NextFrames]_vars

NextCamera == Lifecycle \/ Camera
SpecCamera == Init /\ [][NextCamera]_vars

\* One session torn down by a transport error or by the user, with the
\* inbound audio path.  The host delivers what it owes: a decode completes,
\* and a source that plays to its end fires 'ended'.  Nothing obliges the
\* user or the service to act.
Ending ==
    \/ \E susp \in BOOLEAN : Connect(susp)
    \/ \E c \in Calls : ResumedIn(c)
    \/ \E c \in Calls : ResumedOut(c)
    \/ \E c \in Calls : GumResolved(c)
    \/ \E c \in Calls : OnOpen(c)
    \/ \E c \in Calls : OnError(c)
    \/ UserStop

EndedIfAny(i) == i \in DOMAIN srcs /\ Ended(i)

NextEnding == Ending \/ Playback
SpecEnding ==
    /\ Init /\ [][NextEnding]_vars
    /\ WF_vars(DecodeDone)
    /\ \A i \in 1..MaxMsgs : WF_vars(EndedIfAny(i))

\* createBlob on its own: one captured sample, encoded once
InitBlob ==
    /\ InitLive
    /\ sample \in Samples
    /\ int16 = 0
    /\ encoded = FALSE
    /\ InitAnalyzer

\* createBlob's loop body for the sample (lines 88-93)
CreateBlob ==
    /\ ~encoded
    /\ int16' = EncodeSample(sample)
    /\ encoded' = TRUE
    /\ last' = "createBlob"
    /\ UNCHANGED << reactVars, refVars, calls, tracks, switches, decoding,
                    srcs, nMsgs, mounted, hidden, histVars, sample,
                    briefVars >>

NextBlob == CreateBlob

SpecBlob == InitBlob /\ [][NextBlob]_vars

\* ---------------------------------------------------- ProjectBriefAnalyzer
liveVars == << reactVars, refVars, calls, tracks, switches, decoding, srcs,
               nMsgs, mounted, hidden, histVars, blobVars >>

\* the request at position i of the calls in flight has been answered
Answered(i) == SubSeq(requests, 1, i - 1) \o SubSeq(requests, i + 1, Len(requests))

\* a service call issued with the text of analysis n (for image kinds) or
\* for analysis n itself; arg is the view type or room name, "" otherwise
Request(kind, arg, n) == [kind |-> kind, arg |-> arg, for |-> n]

IsRequest(i, kind) == i \in DOMAIN requests /\ requests[i].kind = kind

\* handleAnalyze (75-99) up to `await analyzeBrief`.  The Analyze Brief
\* button is disabled while loading or while the brief is blank (340), so
\* the early return of lines 76-79 is never taken from the page.
HandleAnalyze ==
    /\ ~analyzer.loading
    /\ nAnalyses < MaxAnalyses
    /\ Len(requests) < MaxInFlight
    /\ analyzer' = [analyzer EXCEPT
                      !.loading = TRUE,
                      !.error = 0,
                      !.analysis = 0,
                      !.modelImageUrl = 0,
                      !.modelError = 0,
                      !.exteriorViews = initialExteriorViewsState,
                      !.interiorViews = NoInteriorViews,
                      !.diagramImageUrl = 0,
                      !.diagramError = 0,
                      !.electricalImageUrl = 0,
                      !.electricalError = 0]
    /\ nAnalyses' = nAnalyses + 1
    /\ requests' = Append(requests, Request("analysis", "", nAnalyses + 1))
    /\ last' = "analyze"
    /\ UNCHANGED liveVars

\* analyzeBrief resolved: setAnalysis(result), then finally (93, 97)
AnalyzeResolved(i) ==
    /\ IsRequest(i, "analysis")
    /\ analyzer' = [analyzer EXCEPT !.analysis = requests[i].for,
                                    !.loading = FALSE]
    /\ requests' = Answered(i)
    /\ last' = "analysed"
    /\ UNCHANGED << liveVars, nAnalyses >>

\* analyzeBrief rejected: setError(message), then finally (95, 97)
AnalyzeRejected(i) ==
    /\ IsRequest(i, "analysis")
    /\ analyzer' = [analyzer EXCEPT !.error = requests[i].for,
                                    !.loading = FALSE]
    /\ requests' = Answered(i)
    /\ last' = "analysisFailed"
    /\ UNCHANGED << liveVars, nAnalyses >>

\* the section below the 3D concept image is rendered (351, 390)
ModelShown == analyzer.analysis # 0 /\ analyzer.modelImageUrl # 0

\* The three handlers that keep a flag, an image and an error of their own
\* (model, diagram, electrical) up to their await: flag on, error and image
\* cleared, the service called with the analysis of this render.
StartImage(kind, flag, img, err) ==
    /\ analyzer.analysis # 0
    /\ Len(requests) < MaxInFlight
    /\ analyzer' = [analyzer EXCEPT ![flag] = TRUE, ![err] = 0, ![img] = 0]
    /\ requests' = Append(requests, Request(kind, "", analyzer.analysis))
    /\ last' = "requested"
    /\ UNCHANGED << liveVars, nAnalyses >>

\* after the await, try and finally: the image is set, the flag off
ImageResolved(i, flag, img) ==
    /\ analyzer' = [analyzer EXCEPT
                      ![img] = requests[i].for,
                      ![flag] = FALSE]
    /\ requests' = Answered(i)
    /\ last' = "imageSet"
    /\ UNCHANGED << liveVars, nAnalyses >>

\* after the await, catch and finally: the error is set, the flag off
ImageRejected(i, flag, err) ==
    /\ analyzer' = [analyzer EXCEPT ![err] = requests[i].for, ![flag] = FALSE]
    /\ requests' = Answered(i)
    /\ last' = "imageFailed"
    /\ UNCHANGED << liveVars, nAnalyses >>

\* handleGenerateModel (101-117); its button is rendered while there is an
\* analysis, no model image and no generation under way (351, 375)
HandleGenerateModel ==
    /\ analyzer.modelImageUrl = 0 /\ ~analyzer.isGeneratingModel
    /\ StartImage("model", "isGeneratingModel", "modelImageUrl", "modelError")

GenerateModelResolved(i) ==
    /\ IsRequest(i, "model")
    /\ ImageResolved(i, "isGeneratingModel", "modelImageUrl")

GenerateModelRejected(i) ==
    /\ IsRequest(i, "model")
    /\ ImageRejected(i, "isGeneratingModel", "modelError")

\* handleGenerateDiagram (186-200); button rendered at 467
HandleGenerateDiagram ==
    /\ ModelShown
    /\ analyzer.diagramImageUrl = 0 /\ ~analyzer.isGeneratingDiagram
    /\ StartImage("diagram", "isGeneratingDiagram", "diagramImageUrl",
                  "diagramError")

GenerateDiagramResolved(i) ==
    /\ IsRequest(i, "diagram")
    /\ ImageResolved(i, "isGeneratingDiagram", "diagramImageUrl")

GenerateDiagramRejected(i) ==
    /\ IsRequest(i, "diagram")
    /\ ImageRejected(i, "isGeneratingDiagram", "diagramError")

\* handleGenerateElectricalDiagram (202-257): needs the floor plan as well
\* (203); button rendered at 478
HandleGenerateElectricalDiagram ==
    /\ ModelShown
    /\ analyzer.diagramImageUrl # 0 /\ ~analyzer.isGeneratingElectrical
    /\ StartImage("electrical", "isGeneratingElectrical",
                  "electricalImageUrl", "electricalError")

GenerateElectricalResolved(i) ==
    /\ IsRequest(i, "electrical")
    /\ ImageResolved(i, "isGeneratingElectrical", "electricalImageUrl")

GenerateElectricalRejected(i) ==
    /\ IsRequest(i, "electrical")
    /\ ImageRejected(i, "isGeneratingElectrical", "electricalError")

\* The two handlers that keep one ViewState per view (exterior, interior) up
\* to their await: the view becomes { loading: true, imageUrl: null,
\* error: null } and the service is called with the analysis of this render.
StartView(kind, views, v) ==
    /\ Len(requests) < MaxInFlight
    /\ analyzer' = [analyzer EXCEPT
                      ![views][v] = [loading |-> TRUE, imageUrl |-> 0,
                                     error |-> 0]]
    /\ requests' = Append(requests, Request(kind, v, analyzer.analysis))
    /\ last' = "requested"
    /\ UNCHANGED << liveVars, nAnalyses >>

\* handleGenerateExteriorView (119-155); buttons at 402-404
HandleGenerateExteriorView(viewType) ==
    /\ ModelShown
    /\ ~analyzer.exteriorViews[viewType].loading
    /\ StartView("exterior", "exteriorViews", viewType)

\* { ...prev[viewType], loading: false, imageUrl: imageUrl } (144-147)
ExteriorViewResolved(i) ==
    /\ IsRequest(i, "exterior")
    /\ analyzer' = [analyzer EXCEPT
                      !.exteriorViews[requests[i].arg] =
                          [@ EXCEPT !.loading = FALSE,
                                    !.imageUrl = requests[i].for]]
    /\ requests' = Answered(i)
    /\ last' = "imageSet"
    /\ UNCHANGED << liveVars, nAnalyses >>

\* { ...prev[viewType], loading: false, error: errorMessage } (150-153)
ExteriorViewRejected(i) ==
    /\ IsRequest(i, "exterior")
    /\ analyzer' = [analyzer EXCEPT
                      !.exteriorViews[requests[i].arg] =
                          [@ EXCEPT !.loading = FALSE,
                                    !.error = requests[i].for]]
    /\ requests' = Answered(i)
    /\ last' = "imageFailed"
    /\ UNCHANGED << liveVars, nAnalyses >>

\* handleGenerateInteriorView (157-184); buttons at 411-419
HandleGenerateInteriorView(roomName) ==
    /\ ModelShown
    /\ ~analyzer.interiorViews[roomName].loading
    /\ StartView("interior", "interiorViews", roomName)

\* { loading: false, imageUrl: imageUrl, error: null } (171-174)
InteriorViewResolved(i) ==
    /\ IsRequest(i, "interior")
    /\ analyzer' = [analyzer EXCEPT
                      !.interiorViews[requests[i].arg] =
                          [loading |-> FALSE, imageUrl |-> requests[i].for,
                           error |-> 0]]
    /\ requests' = Answered(i)
    /\ last' = "imageSet"
    /\ UNCHANGED << liveVars, nAnalyses >>

\* { loading: false, imageUrl: null, error: errorMessage } (179-182)
InteriorViewRejected(i) ==
    /\ IsRequest(i, "interior")
    /\ analyzer' = [analyzer EXCEPT
                      !.interiorViews[requests[i].arg] =
                          [loading |-> FALSE, imageUrl |-> 0,
                           error |-> requests[i].for]]
    /\ requests' = Answered(i)
    /\ last' = "imageFailed"
    /\ UNCHANGED << liveVars, nAnalyses >>

InFlight == 1..MaxInFlight

NextBrief ==
    \/ HandleAnalyze
    \/ \E i \in InFlight : AnalyzeResolved(i)
    \/ \E i \in InFlight : AnalyzeRejected(i)
    \/ HandleGenerateModel
    \/ \E i \in InFlight : GenerateModelResolved(i)
    \/ \E i \in InFlight : GenerateModelRejected(i)
    \/ \E v \in ExteriorViewTypes : HandleGenerateExteriorView(v)
    \/ \E i \in InFlight : ExteriorViewResolved(i)
    \/ \E i \in InFlight : ExteriorViewRejected(i)
    \/ \E r \in Rooms : HandleGenerateInteriorView(r)
    \/ \E i \in InFlight : InteriorViewResolved(i)
    \/ \E i \in InFlight : InteriorViewRejected(i)
    \/ HandleGenerateDiagram
    \/ \E i \in InFlight : GenerateDiagramResolved(i)
    \/ \E i \in InFlight : GenerateDiagramRejected(i)
    \/ HandleGenerateElectricalDiagram
    \/ \E i \in InFlight : GenerateElectricalResolved(i)
    \/ \E i \in InFlight : GenerateElectricalRejected(i)

SpecBrief == Init /\ [][NextBrief]_vars

\* ================================================================ properties
Int16Min == -32768
Int16Max == 32767

\* the stream of call c still has a live track
StreamLive(c) ==
    /\ calls[c].stream
    /\ \/ ~calls[c].audioStopped
       \/ calls[c].vid # 0 /\ ~tracks[calls[c].vid].stopped

\* a context of call c is still open (suspended or running)
ContextsOpen(c) == calls[c].inState # "closed" \/ calls[c].outState # "closed"

\* the host calls a stopEverything would make now: one per held resource
HeldCount ==
    (IF streamRef # 0 THEN 1 ELSE 0) + (IF frameIntervalRef # 0 THEN 1 ELSE 0)
    + (IF inputAudioContextRef # 0 THEN 1 ELSE 0)
    + (IF audioContextRef # 0 THEN 1 ELSE 0) + Cardinality(sourcesRef)

Disjoint(a, b) ==
    \/ a.start + a.dur <= b.start
    \/ b.start + b.dur <= a.start

C2_ExactlyGapless ==
    [][ (last' = "scheduled" /\ prevEnd >= 0)
            => srcs'[Len(srcs')].start = prevEnd ]_vars

\* C2 as amended: a chunk scheduled after another one, with no interruption
\* and no connect reset between them, starts at the later of the first
\* chunk's end (start + duration) and the output clock's reading at the
\* latest audio arrival; so it starts exactly at the first chunk's end unless
\* the clock had already passed it.
C2_GaplessOrClock ==
    [][ (last' = "scheduled" /\ prevEnd >= 0)
            => /\ srcs'[Len(srcs')].start = Max(prevEnd, lastArr)
               /\ prevEnd' = srcs'[Len(srcs')].start + srcs'[Len(srcs')].dur
      ]_vars

\* C2 witness: two chunks scheduled back to back are both registered, the
\* second having arrived at a later clock reading than the first's start and
\* starting where the first ends.
C2_Witness ==
    /\ last = "scheduled"
    /\ Len(srcs) >= 2
    /\ LET a == srcs[Len(srcs) - 1]
           b == srcs[Len(srcs)]
       IN  /\ {Len(srcs) - 1, Len(srcs)} \subseteq sourcesRef
           /\ a.ctx = b.ctx
           /\ lastArr > a.start
           /\ b.start = a.start + a.dur
           /\ prevEnd = b.start + b.dur

\* C3 as stated: the cursor nextStartTime never decreases in a step, except
\* in the step that handles an interruption signal.
C3_MonotoneButInterrupt ==
    [][ \/ last' \in {"interrupted", "scheduledIntr"}
        \/ nextStartTimeRef' >= nextStartTimeRef ]_vars

\* C3 as amended: the cursor nextStartTime never decreases in a step, except
\* in the step that handles an interruption signal and in the step of
\* connect() that publishes the new audio contexts and sets the cursor to 0.
C3_MonotoneButReset ==
    [][ \/ last' \in {"interrupted", "scheduledIntr", "connectReset"}
        \/ nextStartTimeRef' >= nextStartTimeRef ]_vars

\* C3 witness: after a reconnect the cursor has advanced again.
C3_Witness ==
    /\ Len(calls) = 2
    /\ last = "scheduled"
    /\ nextStartTimeRef > 0
    /\ \E i \in DOMAIN srcs : srcs[i].state # "scheduled"

\* C4: right after onmessage has handled a message whose interrupted flag is
\* set (with or without an audio chunk), the playback set is empty, every
\* source that was in it is stopped, and the cursor is 0.
C4_InterruptClears ==
    last \in {"interrupted", "scheduledIntr", "returnedIntr"}
        => /\ sourcesRef = {}
           /\ nextStartTimeRef = 0
           /\ \A i \in DOMAIN srcs : srcs[i].state # "scheduled"

\* C5 as stated: a sample above 1 encodes to 32767 and a sample below -1 to
\* the negative extreme (-32768 or its counterpart -32767); every encoded
\* value is a signed 16-bit number with the same sign as its sample.
C5_SameSign ==
    encoded =>
        ( /\ (sample > SampleDen => int16 = Int16Max)
          /\ (sample < -SampleDen => int16 \in {Int16Min, -Int16Max})
          /\ int16 \in Int16Min..Int16Max
          /\ (sample > 0 => int16 > 0)
          /\ (sample < 0 => int16 < 0) )

\* C5 as amended: a sample above 1 encodes to 32767 and a sample below -1 to
\* -32767 (the scale is 32767, so -32768 is never produced); every encoded
\* value is a signed 16-bit number that never has the sign opposite to its
\* sample's, and has the sample's sign unless the sample is smaller in
\* magnitude than one step of the scale (1/32767), when it is 0.
C5_ClampedNoWrap ==
    encoded =>
        ( /\ (sample > SampleDen => int16 = Int16Max)
          /\ (sample < -SampleDen => int16 = -Int16Max)
          /\ int16 \in (-Int16Max)..Int16Max
          /\ (sample > 0 => int16 >= 0)
          /\ (sample < 0 => int16 <= 0)
          /\ (Clamp(sample) * Int16Max >= SampleDen => int16 > 0)
          /\ ((0 - Clamp(sample)) * Int16Max >= SampleDen => int16 < 0)
          /\ (/\ Clamp(sample) * Int16Max < SampleDen
              /\ (0 - Clamp(sample)) * Int16Max < SampleDen) => int16 = 0 )

\* C5 witness: a sample below -1 has been encoded to the negative extreme.
C5_Witness == encoded /\ sample < -SampleDen /\ int16 = -Int16Max

\* C6: a frame is sampled only on a tick at which the page is not hidden,
\* the camera-active flag is true and the held video track is enabled.
C6_FrameGated ==
    last = "frame" => ~hidden /\ isCameraActive /\ TrackEnabled

\* C6 witness: a frame has just been sampled by the timer of a second
\* session, on a shown page with the held video track enabled.
C6_Witness ==
    /\ last = "frame"
    /\ ~hidden /\ isCameraActive /\ TrackEnabled
    /\ Len(calls) = 2
    /\ calls[2].timerOn /\ calls[2].enc > 0

\* C7: a stopEverything that directly follows a stopEverything finds every
\* ref null and the playback set empty (so it makes no host call that could
\* throw) and changes nothing.
C7_SecondStopNoop ==
    [][ last' = "stopAgain"
            => /\ HeldCount = 0 /\ sessionRef = 0
               /\ ~connected' /\ ~isCameraActive' /\ status' = "Disconnected"
               /\ UNCHANGED << reactVars, refVars, calls, tracks, switches,
                               decoding, srcs, nMsgs, hidden, histVars >>
      ]_vars

\* C7 witness: the second of two consecutive teardowns has run, the first
\* having released a live session.
C7_Witness ==
    /\ last = "stopAgain"
    /\ \E c \in Calls : /\ calls[c].sess = "open"
                        /\ calls[c].outState = "closed"
                        /\ calls[c].audioStopped

\* C8: when the transport's closed signal arrives while the status is Live,
\* the handler leaves no frame timer running, no stream or context held or
\* live, and the playback set empty.
C8_CloseTearsDown ==
    last = "oncloseLive"
        => /\ frameIntervalRef = 0 /\ streamRef = 0
           /\ inputAudioContextRef = 0 /\ audioContextRef = 0
           /\ sourcesRef = {}
           /\ \A c \in Calls : /\ ~calls[c].timerOn
                               /\ ~StreamLive(c)
                               /\ ~ContextsOpen(c)

\* C9: when stopEverything returns (user stop, unmount or error teardown),
\* the session, stream, timer and context refs are null, the tracks of the
\* stream that was held are stopped, the timer that was held is cleared, the
\* contexts that were held are closed, the sources that were registered are
\* stopped and the set is empty, connected and isCameraActive are false and
\* the status is Disconnected.
C9_StopReleases ==
    [][ last' \in StopLabels
            => /\ sessionRef' = 0 /\ streamRef' = 0 /\ frameIntervalRef' = 0
               /\ inputAudioContextRef' = 0 /\ audioContextRef' = 0
               /\ streamRef # 0
                    => /\ calls'[streamRef].audioStopped
                       /\ calls[streamRef].vid # 0
                            => tracks'[calls[streamRef].vid].stopped
               /\ frameIntervalRef # 0 => ~calls'[frameIntervalRef].timerOn
               /\ inputAudioContextRef # 0
                    => calls'[inputAudioContextRef].inState = "closed"
               /\ audioContextRef # 0
                    => calls'[audioContextRef].outState = "closed"
               /\ sourcesRef' = {}
               /\ \A i \in sourcesRef : srcs'[i].state = "stopped"
               /\ ~connected' /\ ~isCameraActive' /\ status' = "Disconnected"
      ]_vars

\* C9 witness: the user stop has torn down a live session that had a source
\* registered.
C9_Witness ==
    /\ last = "stop"
    /\ \E c \in Calls : /\ calls[c].sess = "open"
                        /\ calls[c].outState = "closed"
                        /\ calls[c].inState = "closed"
                        /\ calls[c].audioStopped
                        /\ ~calls[c].timerOn
    /\ \E i \in DOMAIN srcs : srcs[i].state = "stopped"

\* C10: in every reachable state at most one capture stream is live, at most
\* one connect() call's audio contexts are open, at most one frame timer
\* runs and at most one transport session is opening or open.
C10_OneSession ==
    /\ Cardinality({c \in Calls : StreamLive(c)}) <= 1
    /\ Cardinality({c \in Calls : ContextsOpen(c)}) <= 1
    /\ Cardinality({c \in Calls : calls[c].timerOn}) <= 1
    /\ Cardinality({c \in Calls : calls[c].sess \in {"opening", "open"}}) <= 1

C12_ErrorTearsDown ==
    [][ /\ last' = "errorStop"
            => /\ error' # "null"
               /\ Len(calls') = Len(calls)
               /\ sessionRef' = 0 /\ streamRef' = 0 /\ frameIntervalRef' = 0
               /\ inputAudioContextRef' = 0 /\ audioContextRef' = 0
               /\ streamRef # 0
                    => /\ calls'[streamRef].audioStopped
                       /\ calls'[streamRef].vid # 0
                            => tracks'[calls'[streamRef].vid].stopped
               /\ frameIntervalRef # 0 => ~calls'[frameIntervalRef].timerOn
               /\ inputAudioContextRef # 0
                    => calls'[inputAudioContextRef].inState = "closed"
               /\ audioContextRef # 0
                    => calls'[audioContextRef].outState = "closed"
               /\ sourcesRef' = {}
               /\ \A i \in sourcesRef : srcs'[i].state = "stopped"
               /\ ~connected' /\ ~isCameraActive' /\ status' = "Disconnected"
        /\ Len(calls') # Len(calls)
            => /\ mounted /\ ~connected
               /\ Len(calls') = Len(calls) + 1
               /\ status' = "Connecting..." /\ error' = "null"
      ]_vars

\* C12 witness: the transport's error callback has torn down a live session.
C12_Witness ==
    /\ last = "errorStop"
    /\ error = "connection"
    /\ \E c \in Calls : /\ calls[c].sess = "errored"
                        /\ calls[c].producer
                        /\ ~calls[c].timerOn
                        /\ ~StreamLive(c)
                        /\ ~ContextsOpen(c)

\* C13: when the getUserMedia request of a connect() call is rejected, the
\* step that handles it ends with status Disconnected, an error message
\* set, streamRef null, both audio contexts that call created closed, and no
\* transport session opened by it.
C13_CaptureRejected ==
    [][ \A c \in Calls :
            (calls[c].pc = "gum" /\ calls'[c].pc = "done" /\ ~calls'[c].stream)
                => /\ status' = "Disconnected"
                   /\ error' # "null"
                   /\ streamRef' = 0
                   /\ calls'[c].inState = "closed"
                   /\ calls'[c].outState = "closed"
                   /\ calls'[c].sess = "none"
      ]_vars

\* C14: a rejected send of an audio block or a video frame leaves the
\* status, the connected flag, the error message, every ref and the playback
\* set as they were, and leaves every producer as it was (script processor
\* attached, input context state, frame timer, captured stream), so that
\* blocks and frames keep being produced and sent.
C14_SendFailureSwallowed ==
    [][ last' = "sendFailed"
            => /\ UNCHANGED << reactVars, refVars, tracks, srcs, decoding >>
               /\ \A c \in Calls :
                    /\ calls'[c].producer = calls[c].producer
                    /\ calls'[c].timerOn = calls[c].timerOn
                    /\ calls'[c].inState = calls[c].inState
                    /\ calls'[c].sess = calls[c].sess
                    /\ calls'[c].stream = calls[c].stream
                    /\ calls'[c].audioStopped = calls[c].audioStopped
      ]_vars

\* C14 witness: a send was rejected in a live session whose producers are
\* both still in place, with no error message shown.
C14_Witness ==
    /\ last = "sendFailed"
    /\ status = "Live" /\ connected /\ error = "null"
    /\ sessionRef # 0 /\ streamRef # 0 /\ frameIntervalRef # 0
    /\ \E c \in Calls : /\ calls[c].producer
                        /\ calls[c].inState = "running"
                        /\ calls[c].timerOn
                        /\ calls[c].sess = "open"

\* C15: the step that handles the transport's opened signal of a connect()
\* call whose capture request succeeded sets the status to Live and connected
\* to true, attaches the audio block producer of that call (script processor
\* on its input context and stream) and starts its frame timer, whose handle
\* is stored in frameIntervalRef.
C15_OpenGoesLive ==
    [][ last' = "opened"
            => /\ status' = "Live" /\ connected'
               /\ frameIntervalRef' # 0
               /\ LET c == frameIntervalRef'
                  IN  /\ calls[c].sess = "opening" /\ calls'[c].sess = "open"
                      /\ calls[c].stream /\ calls[c].pc = "done"
                      /\ ~calls[c].producer /\ calls'[c].producer
                      /\ ~calls[c].timerOn /\ calls'[c].timerOn
      ]_vars

\* C15 witness: the first connect from the initial state has gone Live, with
\* its input context running, its stream live and both producers started.
C15_Witness ==
    /\ last = "opened"
    /\ Len(calls) = 1
    /\ status = "Live" /\ connected
    /\ sessionRef = 1 /\ streamRef = 1 /\ frameIntervalRef = 1
    /\ calls[1].producer /\ calls[1].inState = "running"
    /\ calls[1].timerOn /\ StreamLive(1)

\* C16: when a switchCamera whose exact-constraint request was rejected gets
\* its relaxed request resolved (a new track is delivered), the facing mode
\* becomes the mode targeted at request time (the opposite of the mode then),
\* the new track becomes the video track of the held stream, the old one is
\* stopped, and the error message is left as it was.
C16_FallbackSwitches ==
    [][ \A k \in DOMAIN switches :
            ( /\ switches[k].pc = "relaxed" /\ switches'[k].pc = "done"
              /\ Len(tracks') = Len(tracks) + 1 )
                => /\ facingMode' = switches[k].target
                   /\ error' = error
                   /\ streamRef # 0
                   /\ calls'[streamRef].vid = Len(tracks')
                   /\ ~tracks'[Len(tracks')].stopped
                   /\ calls[streamRef].vid # 0
                        => tracks'[calls[streamRef].vid].stopped
      ]_vars

\* C17: in every reachable state the status is Live exactly when connected
\* is true, and while the status is Live the session, the capture stream
\* and both audio contexts are held (their refs are non-null).
C17_NoPartialLive ==
    /\ (status = "Live") <=> connected
    /\ status = "Live"
        => /\ sessionRef # 0 /\ streamRef # 0
           /\ inputAudioContextRef # 0 /\ audioContextRef # 0

\* C18: sendRealtimeInput is called only while the session is Live: a block
\* or a frame that has just been handed to the session finds the status
\* Live and connected true, whichever producer sent it.
C18_SendOnlyWhileLive ==
    last \in {"sentAudio", "sentFrame"} => status = "Live" /\ connected

C20_LateOpenIgnored ==
    [][ \A c \in Calls :
          (/\ calls[c].sess = "opening"
           /\ calls'[c].sess = "open"
           /\ sessionRef = 0)
            => /\ status' # "Live"
               /\ ~connected'
               /\ ~calls'[c].producer
               /\ ~calls'[c].timerOn
               /\ frameIntervalRef' = frameIntervalRef ]_vars

C22_CaptureOrder ==
    \A c \in Calls :
        /\ \A i \in DOMAIN calls[c].sent : \A j \in DOMAIN calls[c].sent :
               i < j => calls[c].sent[i] < calls[c].sent[j]
        /\ \A i \in DOMAIN calls[c].sent : \A j \in DOMAIN calls[c].thens :
               IsBlock(calls[c].thens[j])
                   => calls[c].sent[i] < calls[c].thens[j]

\* C22 witness: two blocks captured while the session promise was pending
\* have just been sent together at its resolution, in capture order.
C22_Witness ==
    /\ last = "sentQueued"
    /\ \E c \in Calls : calls[c].sent = << 1, 2 >> /\ calls[c].ready

\* C23: a switchCamera that succeeds replaces exactly the video track of the
\* held stream (the old one stopped and removed, the new one added, live and
\* enabled) and sets the camera-active flag, and leaves the session ref, the
\* stream ref and its audio track, both audio contexts, the frame timer, the
\* status, the connected flag, the cursor and the playback set as they were.
C23_SwitchReplacesTrack ==
    [][ last' = "switched"
            => /\ streamRef # 0
               /\ LET old == calls[streamRef].vid
                      new == calls'[streamRef].vid
                  IN  /\ new = Len(tracks) + 1
                      /\ Len(tracks') = new
                      /\ tracks'[new] = NewTrack
                      /\ old # 0 => tracks'[old].stopped
                      /\ \A t \in DOMAIN tracks :
                             t # old => tracks'[t] = tracks[t]
                      /\ calls' = [calls EXCEPT ![streamRef].vid = new]
               /\ isCameraActive'
               /\ UNCHANGED << sessionRef, streamRef, audioContextRef,
                               inputAudioContextRef, frameIntervalRef,
                               status, connected, nextStartTimeRef,
                               sourcesRef, srcs, decoding >> ]_vars

\* C23 witness: a switch has just succeeded in a live session: the stream
\* holds a new live track facing the environment, the first track is
\* stopped, and the session, the contexts and the timer are still held.
C23_Witness ==
    /\ last = "switched"
    /\ status = "Live" /\ connected /\ isCameraActive
    /\ facingMode = "environment"
    /\ sessionRef # 0 /\ streamRef # 0 /\ frameIntervalRef # 0
    /\ audioContextRef # 0 /\ inputAudioContextRef # 0
    /\ calls[streamRef].vid = 2
    /\ tracks[1].stopped /\ ~tracks[2].stopped

\* C24: toggleCamera on a held stream with a video track flips that track's
\* enabled flag and the camera-active flag and changes nothing else (session
\* ref, stream and its tracks' other fields, audio contexts, frame timer,
\* playback state, facing mode, status, connected and error are unchanged);
\* with no stream or no video track it changes nothing at all.  Two flips
\* being the identity, two consecutive toggles restore the original state.
C24_ToggleFlipsOnly ==
    [][ /\ last' = "toggled"
            => /\ streamRef # 0 /\ calls[streamRef].vid # 0
               /\ LET v == calls[streamRef].vid
                  IN  tracks' = [tracks EXCEPT ![v].enabled = ~tracks[v].enabled]
               /\ isCameraActive' = ~isCameraActive
               /\ UNCHANGED << connected, facingMode, status, error, refVars,
                               calls, switches, decoding, srcs, mounted,
                               hidden >>
        /\ last' = "toggledNothing"
            => /\ streamRef = 0 \/ calls[streamRef].vid = 0
               /\ UNCHANGED << reactVars, refVars, calls, tracks, switches,
                               decoding, srcs, mounted, hidden >> ]_vars

\* C24 witness: with no camera switch ever made, a toggle has just brought
\* the first track back to enabled and the flag back to true, as they were
\* before the previous toggle; the session is live and untouched.
C24_Witness ==
    /\ last = "toggled"
    /\ switches = << >>
    /\ Len(calls) = 1 /\ streamRef = 1
    /\ tracks[calls[1].vid].enabled /\ isCameraActive
    /\ status = "Live" /\ connected /\ sessionRef = 1

C26_SwitchAfterStop ==
    [][ \A k \in DOMAIN switches :
          (/\ switches[k].pc \in {"exact", "relaxed"}
           /\ switches'[k].pc = "done"
           /\ Len(tracks') > Len(tracks)
           /\ streamRef = 0)
            => /\ tracks'[Len(tracks')].stopped
               /\ streamRef' = 0
               /\ error' = error ]_vars

\* C27: when connect() completes (its capture request settles) after the
\* component was unmounted while it was suspended, it retains nothing: no
\* capture stream, no session, no frame timer and no audio context is held,
\* both contexts of the call are closed and no transport session was opened.
C27_ConnectAfterTeardown ==
    [][ \A c \in Calls :
          (/\ ~mounted
           /\ calls[c].pc = "gum"
           /\ calls'[c].pc = "done")
            => /\ streamRef' = 0 /\ sessionRef' = 0 /\ frameIntervalRef' = 0
               /\ audioContextRef' = 0 /\ inputAudioContextRef' = 0
               /\ calls'[c].inState = "closed"
               /\ calls'[c].outState = "closed"
               /\ calls'[c].sess = "none" ]_vars

\* C28: when the relaxed capture request of switchCamera is rejected after
\* the exact one, the error message is set and nothing else changes: the
\* facing mode, the held stream and every track, the camera-active flag, the
\* status, the connected flag and every ref are as before, so no teardown
\* has run.
C28_SwitchFailureOnlyReports ==
    [][ last' = "switchFailed"
            => /\ error' = "switch"
               /\ UNCHANGED << facingMode, isCameraActive, status, connected,
                               refVars, calls, tracks, decoding, srcs,
                               mounted, hidden >> ]_vars

\* C28 witness: both requests of a switch have just been rejected in a live
\* session: the message is shown, the first track is still the held one and
\* live, and the camera still faces the user.
C28_Witness ==
    /\ last = "switchFailed"
    /\ error = "switch"
    /\ status = "Live" /\ connected /\ isCameraActive
    /\ facingMode = "user"
    /\ sessionRef # 0 /\ streamRef # 0 /\ frameIntervalRef # 0
    /\ calls[streamRef].vid = 1 /\ ~tracks[1].stopped
    /\ Len(tracks) = 1

\* C29: in every reachable state of the mounted component in which a capture
\* stream with a video track is held, the camera-active flag equals that
\* track's enabled flag.
C29_FlagIsTrackEnabled ==
    (mounted /\ streamRef # 0 /\ calls[streamRef].vid # 0)
        => isCameraActive = tracks[calls[streamRef].vid].enabled

\* C29 witness: after a camera switch the new track has been toggled off:
\* the held track is the second one, it is disabled, and the flag is false.
C29_Witness ==
    /\ last = "toggled"
    /\ mounted /\ streamRef # 0
    /\ calls[streamRef].vid = 2
    /\ \E k \in DOMAIN switches : switches[k].pc = "done"
    /\ ~tracks[2].enabled /\ ~isCameraActive

\* the images and errors kept by the analyzer, whether rendered or not
Derived(a) ==
    {a.modelImageUrl, a.modelError, a.diagramImageUrl, a.diagramError,
     a.electricalImageUrl, a.electricalError}
    \cup { a.exteriorViews[v].imageUrl : v \in ExteriorViewTypes }
    \cup { a.exteriorViews[v].error : v \in ExteriorViewTypes }
    \cup { a.interiorViews[r].imageUrl : r \in Rooms }
    \cup { a.interiorViews[r].error : r \in Rooms }

\* the images and errors on the page: the 3D concept and its error below an
\* analysis (351, 386-390), the others below the 3D concept image (390-517)
Displayed ==
    IF analyzer.analysis = 0 THEN {}
    ELSE IF analyzer.modelImageUrl = 0
         THEN {analyzer.modelImageUrl, analyzer.modelError}
         ELSE Derived(analyzer)

\* C30: in the project brief analyzer, the step that starts a new analysis
\* leaves no image and no error derived from the previous analysis, and at
\* every moment each image or error on the page comes from a request issued
\* for the analysis on the page: a request issued for the previous analysis
\* that is answered after the new analysis has started puts nothing there.
C30_NothingFromPreviousAnalysis ==
    /\ [][ nAnalyses' # nAnalyses => Derived(analyzer') = {0} ]_vars
    /\ [](\A x \in Displayed : x \in {0, analyzer.analysis})

====
